---- MODULE Spec2Model ----
(***************************************************************************)
(* The kube subnet manager of flannel (subnet/kube/kube.go): the           *)
(* translation of node notifications into lease events, the bounded event  *)
(* channel between the informer's handler goroutine and WatchLeases, and   *)
(* AcquireLease's read-modify-patch of the local node's annotations.       *)
(***************************************************************************)
EXTENDS Integers, Sequences, FiniteSets, TLC

VARIABLES
    store,      \* ksm.nodeStore: the informer's cache, node name -> node
    events,     \* ksm.events: the buffered channel's contents, oldest first
    tpc,        \* the handler goroutine: "idle", or "sending" (blocked in ksm.events <- e)
    sendbuf,    \* the event of the blocked send, <<e>>, else <<>>
    wpc,        \* per WatchLeases caller: "idle" or "waiting" (inside the select)
    ctxDone,    \* per caller: whether ctx.Done() of its call is closed
    wres,       \* per caller: what its last WatchLeases call returned
    acq,        \* what the last AcquireLease call read, submitted and returned
    pending,    \* patches the server accepted whose update notification is still to come
    crashed,    \* a goroutine panicked: the process is gone
    last,       \* history: the kind and node of the last notification handled
    nnotif,     \* history: how many notifications were handled
    pushed,     \* history: every event whose send completed, in order, each with
                \* the number and the node of the notification that made it
    returned,   \* history: every event a WatchLeases call returned, in order
    nacq,       \* history: how many AcquireLease calls were made
    patches,    \* history: how many Patch calls AcquireLease issued
    rejected    \* history: how many of them returned an error

vars == <<store, events, tpc, sendbuf, wpc, ctxDone, wres, acq, pending, crashed,
          last, nnotif, pushed, returned, nacq, patches, rejected>>

---------------------------------------------------------------------------
(* Bounds of the exploration. *)

\* The capacity of ksm.events. The code makes it 5000 (kube.go:148); the
\* model keeps the channel's behaviour and scales the number down.
QueueCap == 2

\* How many notifications the informer delivers in one behaviour.
MaxNotifs == 3

\* How many AcquireLease calls are made in one behaviour.
MaxAcquire == 2

---------------------------------------------------------------------------
(* Annotation keys (kube.go:54-58), with the common prefix                 *)
(* "flannel.alpha.coreos.com/" left out.                                   *)

subnetKubeManagedAnnotation == "kube_subnet_manager"
backendDataAnnotation == "backend_data"
backendTypeAnnotation == "backend_type"
backendPublicIPAnnotation == "public_ip"
backendPublicIPOverwriteAnnotation == "public_ip_overwrite"
\* An annotation this package never reads or writes.
otherAnnotation == "other"

\* Hours of validity AcquireLease gives a lease (kube.go:278).
LeaseHours == 24

EventAdded == "Added"
EventRemoved == "Removed"

---------------------------------------------------------------------------
(* Go maps. A map[string]string is a function on the keys it holds; a      *)
(* lookup of a missing key yields "". A decoded object with no annotation  *)
(* has a nil map: it reads like an empty one, a write to it panics.        *)

Get(m, k) == IF k \in DOMAIN m THEN m[k] ELSE ""

Has(m, k) == k \in DOMAIN m

Put(m, k, v) == [x \in (DOMAIN m) \cup {k} |-> IF x = k THEN v ELSE m[x]]

IsNilMap(m) == DOMAIN m = {}

---------------------------------------------------------------------------
(* Parsing and formatting. Addresses are the uint32 of ip.IP4.             *)

IP4Table ==
    [s \in {"10.0.0.5", "10.0.0.6"} |->
        IF s = "10.0.0.5" THEN 167772165 ELSE 167772166]

\* ip.ParseIP4: the address, or an error for anything that is no IPv4.
ParseIP4(s) ==
    IF s \in DOMAIN IP4Table
    THEN [err |-> FALSE, ip |-> IP4Table[s]]
    ELSE [err |-> TRUE, ip |-> 0]

\* ip.IP4.String: the dotted form.
IP4String(a) == CHOOSE s \in DOMAIN IP4Table : IP4Table[s] = a

CIDRTable ==
    [s \in {"10.1.0.0/24", "10.1.1.0/24", "10.1.1.7/24"} |->
        IF s = "10.1.0.0/24"
        THEN [IP |-> 167837696, PrefixLen |-> 24]
        ELSE [IP |-> 167837952, PrefixLen |-> 24]]

\* net.ParseCIDR followed by ip.FromIPNet: the network of the block (the
\* host bits of "10.1.1.7/24" are masked away), or an error.
ParseCIDR(s) ==
    IF s \in DOMAIN CIDRTable
    THEN [err |-> FALSE, net |-> CIDRTable[s]]
    ELSE [err |-> TRUE, net |-> [IP |-> 0, PrefixLen |-> 0]]

\* json.RawMessage.MarshalJSON of a non-nil message: its bytes.
MarshalJSON(bd) == bd

ZeroLease ==
    [Subnet |-> [IP |-> 0, PrefixLen |-> 0],
     Attrs |-> [PublicIP |-> 0, BackendType |-> "", BackendData |-> ""],
     Expiration |-> 0]

---------------------------------------------------------------------------
(* nodeToLease and the two handlers, as functions of the node(s) given.    *)

nodeToLease_Swapped(n) ==
    LET pip == ParseIP4(Get(n.ann, backendPublicIPAnnotation))
        net == ParseCIDR(n.cidr)
    IN  IF pip.err \/ net.err
        THEN [err |-> TRUE, lease |-> ZeroLease]
        ELSE [err |-> FALSE,
              lease |-> [Subnet |-> net.net,
                         Attrs |-> [PublicIP |-> pip.ip,
                                    BackendType |-> Get(n.ann, backendDataAnnotation),
                                    BackendData |-> Get(n.ann, backendTypeAnnotation)],
                         Expiration |-> 0]]

nodeToLease(n) ==
    LET pip == ParseIP4(Get(n.ann, backendPublicIPAnnotation))
        net == ParseCIDR(n.cidr)
    IN  IF pip.err \/ net.err
        THEN [err |-> TRUE, lease |-> ZeroLease]
        ELSE [err |-> FALSE,
              lease |-> [Subnet |-> net.net,
                         Attrs |-> [PublicIP |-> pip.ip,
                                    BackendType |-> Get(n.ann, backendTypeAnnotation),
                                    BackendData |-> Get(n.ann, backendDataAnnotation)],
                         Expiration |-> 0]]

\* The guard of both handlers: s, ok := n.Annotations[...]; !ok || s != "true".
Managed(n) ==
    /\ Has(n.ann, subnetKubeManagedAnnotation)
    /\ n.ann[subnetKubeManagedAnnotation] = "true"

handleAddLeaseEvent_AnyMarker(et, n) ==
    IF ~Has(n.ann, subnetKubeManagedAnnotation)
    THEN <<>>
    ELSE LET r == nodeToLease(n)
         IN  IF r.err THEN <<>> ELSE <<[Type |-> et, Lease |-> r.lease]>>

\* What handleAddLeaseEvent sends on ksm.events: <<>> or one event.
handleAddLeaseEvent(et, n) ==
    IF ~Managed(n)
    THEN <<>>
    ELSE LET r == nodeToLease(n)
         IN  IF r.err THEN <<>> ELSE <<[Type |-> et, Lease |-> r.lease]>>

SameLeaseAnnotations(o, n) ==
    /\ Get(o.ann, backendDataAnnotation) = Get(n.ann, backendDataAnnotation)
    /\ Get(o.ann, backendTypeAnnotation) = Get(n.ann, backendTypeAnnotation)
    /\ Get(o.ann, backendPublicIPAnnotation) = Get(n.ann, backendPublicIPAnnotation)

handleUpdateLeaseEvent_WholeNode(o, n) ==
    IF ~Managed(n)
    THEN <<>>
    ELSE IF o = n
    THEN <<>>
    ELSE LET r == nodeToLease(n)
         IN  IF r.err THEN <<>> ELSE <<[Type |-> EventAdded, Lease |-> r.lease]>>

handleUpdateLeaseEvent_OldNode(o, n) ==
    IF ~Managed(n)
    THEN <<>>
    ELSE IF SameLeaseAnnotations(o, n)
    THEN <<>>
    ELSE LET r == nodeToLease(o)
         IN  IF r.err THEN <<>> ELSE <<[Type |-> EventAdded, Lease |-> r.lease]>>

handleUpdateLeaseEvent_NoFilter(o, n) ==
    IF ~Managed(n)
    THEN <<>>
    ELSE LET r == nodeToLease(n)
         IN  IF r.err THEN <<>> ELSE <<[Type |-> EventAdded, Lease |-> r.lease]>>

\* What handleUpdateLeaseEvent sends on ksm.events: <<>> or one event.
handleUpdateLeaseEvent(o, n) ==
    IF ~Managed(n)
    THEN <<>>
    ELSE IF SameLeaseAnnotations(o, n)
    THEN <<>>
    ELSE LET r == nodeToLease(n)
         IN  IF r.err THEN <<>> ELSE <<[Type |-> EventAdded, Lease |-> r.lease]>>

---------------------------------------------------------------------------
(* AcquireLease (kube.go:214-280), as a function of what nodeStore.Get     *)
(* returns, the attrs, the call time and whether the Patch call succeeds.  *)

\* The condition of kube.go:236-240.
NeedsWrite(ann, attrs) ==
    \/ Get(ann, backendDataAnnotation) # MarshalJSON(attrs.BackendData)
    \/ Get(ann, backendTypeAnnotation) # attrs.BackendType
    \/ Get(ann, backendPublicIPAnnotation) # IP4String(attrs.PublicIP)
    \/ Get(ann, subnetKubeManagedAnnotation) # "true"
    \/ /\ Get(ann, backendPublicIPOverwriteAnnotation) # ""
       /\ Get(ann, backendPublicIPOverwriteAnnotation) # IP4String(attrs.PublicIP)

Desired_IgnoreOverwrite(ann, attrs) ==
    LET a1 == Put(ann, backendTypeAnnotation, attrs.BackendType)
        a2 == Put(a1, backendDataAnnotation, MarshalJSON(attrs.BackendData))
        a3 == Put(a2, backendPublicIPAnnotation, IP4String(attrs.PublicIP))
    IN  Put(a3, subnetKubeManagedAnnotation, "true")

Desired_FreshMap(ann, attrs) ==
    LET a1 == Put([k \in {} |-> ""], backendTypeAnnotation, attrs.BackendType)
        a2 == Put(a1, backendDataAnnotation, MarshalJSON(attrs.BackendData))
        ow == Get(ann, backendPublicIPOverwriteAnnotation)
        a3 == Put(a2, backendPublicIPAnnotation,
                  IF ow # "" THEN ow ELSE IP4String(attrs.PublicIP))
    IN  Put(a3, subnetKubeManagedAnnotation, "true")

\* The assignments of kube.go:241-253 to the copy's annotations.
Desired(ann, attrs) ==
    LET a1 == Put(ann, backendTypeAnnotation, attrs.BackendType)
        a2 == Put(a1, backendDataAnnotation, MarshalJSON(attrs.BackendData))
        ow == Get(a2, backendPublicIPOverwriteAnnotation)
        a3 == IF ow # ""
              THEN IF Get(a2, backendPublicIPAnnotation) # ow
                   THEN Put(a2, backendPublicIPAnnotation, ow)
                   ELSE a2
              ELSE Put(a2, backendPublicIPAnnotation, IP4String(attrs.PublicIP))
    IN  Put(a3, subnetKubeManagedAnnotation, "true")

\* strategicpatch.CreateTwoWayMergePatch of two nodes that differ at most
\* in annotations: the keys added or changed, with their new values.
CreateTwoWayMergePatch(old, new) ==
    [k \in {x \in DOMAIN new.ann : ~Has(old.ann, x) \/ old.ann[x] # new.ann[x]}
        |-> new.ann[k]]

\* The server's merge of such a patch into a node.
ApplyPatch(n, patch) ==
    [ann |-> [k \in (DOMAIN n.ann) \cup (DOMAIN patch) |->
                 IF k \in DOMAIN patch THEN patch[k] ELSE n.ann[k]],
     cidr |-> n.cidr]

EmptyMap == [k \in {} |-> ""]

NoNode == [ann |-> EmptyMap, cidr |-> ""]

\* No call yet.
NoAcquire ==
    [status |-> "none", error |-> "", found |-> FALSE, snap |-> NoNode,
     attrs |-> [PublicIP |-> 0, BackendType |-> "", BackendData |-> ""],
     time |-> 0, called |-> FALSE, wrote |-> NoNode, patch |-> EmptyMap,
     lease |-> ZeroLease]

AcquireResult(status, error, found, snap, attrs, t, called, wrote, patch, lease) ==
    [status |-> status, error |-> error, found |-> found, snap |-> snap,
     attrs |-> attrs, time |-> t, called |-> called, wrote |-> wrote,
     patch |-> patch, lease |-> lease]

AcquireLeaseCall_WrittenAttrs(st, name, attrs, t, patchOk) ==
    IF name \notin DOMAIN st
    THEN AcquireResult("err", "not found", FALSE, NoNode, attrs, t, FALSE,
                       NoNode, EmptyMap, ZeroLease)
    ELSE
    LET cachedNode == st[name]
        net == ParseCIDR(cachedNode.cidr)
        n == [ann |-> Desired(cachedNode.ann, attrs), cidr |-> cachedNode.cidr]
        patchBytes == CreateTwoWayMergePatch(cachedNode, n)
        written == ParseIP4(Get(n.ann, backendPublicIPAnnotation))
        lease == [Subnet |-> net.net,
                  Attrs |-> [attrs EXCEPT !.PublicIP = written.ip],
                  Expiration |-> t + LeaseHours]
    IN  IF cachedNode.cidr = ""
        THEN AcquireResult("err", "pod cidr not assigned", TRUE, cachedNode, attrs, t,
                           FALSE, NoNode, EmptyMap, ZeroLease)
        ELSE IF net.err
        THEN AcquireResult("err", "invalid CIDR", TRUE, cachedNode, attrs, t,
                           FALSE, NoNode, EmptyMap, ZeroLease)
        ELSE IF ~NeedsWrite(cachedNode.ann, attrs)
        THEN AcquireResult("ok", "", TRUE, cachedNode, attrs, t,
                           FALSE, NoNode, EmptyMap, lease)
        ELSE IF IsNilMap(cachedNode.ann)
        THEN AcquireResult("panic", "assignment to entry in nil map", TRUE, cachedNode,
                           attrs, t, FALSE, NoNode, EmptyMap, ZeroLease)
        ELSE IF ~patchOk
        THEN AcquireResult("err", "patch failed", TRUE, cachedNode, attrs, t,
                           TRUE, n, patchBytes, ZeroLease)
        ELSE AcquireResult("ok", "", TRUE, cachedNode, attrs, t,
                           TRUE, n, patchBytes, lease)

AcquireLeaseCall_LateCheck(st, name, attrs, t, patchOk) ==
    IF name \notin DOMAIN st
    THEN AcquireResult("err", "not found", FALSE, NoNode, attrs, t, FALSE,
                       NoNode, EmptyMap, ZeroLease)
    ELSE
    LET cachedNode == st[name]
        net == ParseCIDR(cachedNode.cidr)
        write == NeedsWrite(cachedNode.ann, attrs)
        n == [ann |-> Desired(cachedNode.ann, attrs), cidr |-> cachedNode.cidr]
        patchBytes == CreateTwoWayMergePatch(cachedNode, n)
        lease == [Subnet |-> net.net, Attrs |-> attrs, Expiration |-> t + LeaseHours]
    IN  IF write /\ IsNilMap(cachedNode.ann)
        THEN AcquireResult("panic", "assignment to entry in nil map", TRUE, cachedNode,
                           attrs, t, FALSE, NoNode, EmptyMap, ZeroLease)
        ELSE IF write /\ ~patchOk
        THEN AcquireResult("err", "patch failed", TRUE, cachedNode, attrs, t,
                           TRUE, n, patchBytes, ZeroLease)
        ELSE IF cachedNode.cidr = ""
        THEN AcquireResult("err", "pod cidr not assigned", TRUE, cachedNode, attrs, t,
                           write, IF write THEN n ELSE NoNode,
                           IF write THEN patchBytes ELSE EmptyMap, ZeroLease)
        ELSE IF net.err
        THEN AcquireResult("err", "invalid CIDR", TRUE, cachedNode, attrs, t,
                           write, IF write THEN n ELSE NoNode,
                           IF write THEN patchBytes ELSE EmptyMap, ZeroLease)
        ELSE AcquireResult("ok", "", TRUE, cachedNode, attrs, t,
                           write, IF write THEN n ELSE NoNode,
                           IF write THEN patchBytes ELSE EmptyMap, lease)

\* The whole call: status "ok" (a lease, no error), "err" (no lease) or
\* "panic" (the write to a nil annotation map at kube.go:241); called says
\* whether Nodes().Patch was invoked, wrote is the node state it submitted.
AcquireLeaseCall(st, name, attrs, t, patchOk) ==
    IF name \notin DOMAIN st
    THEN AcquireResult("err", "not found", FALSE, NoNode, attrs, t, FALSE,
                       NoNode, EmptyMap, ZeroLease)
    ELSE
    LET cachedNode == st[name]
        net == ParseCIDR(cachedNode.cidr)
        n == [ann |-> Desired(cachedNode.ann, attrs), cidr |-> cachedNode.cidr]
        patchBytes == CreateTwoWayMergePatch(cachedNode, n)
        lease == [Subnet |-> net.net, Attrs |-> attrs, Expiration |-> t + LeaseHours]
    IN  IF cachedNode.cidr = ""
        THEN AcquireResult("err", "pod cidr not assigned", TRUE, cachedNode, attrs, t,
                           FALSE, NoNode, EmptyMap, ZeroLease)
        ELSE IF net.err
        THEN AcquireResult("err", "invalid CIDR", TRUE, cachedNode, attrs, t,
                           FALSE, NoNode, EmptyMap, ZeroLease)
        ELSE IF ~NeedsWrite(cachedNode.ann, attrs)
        THEN AcquireResult("ok", "", TRUE, cachedNode, attrs, t,
                           FALSE, NoNode, EmptyMap, lease)
        ELSE IF IsNilMap(cachedNode.ann)
        THEN AcquireResult("panic", "assignment to entry in nil map", TRUE, cachedNode,
                           attrs, t, FALSE, NoNode, EmptyMap, ZeroLease)
        ELSE IF ~patchOk
        THEN AcquireResult("err", "patch failed", TRUE, cachedNode, attrs, t,
                           TRUE, n, patchBytes, ZeroLease)
        ELSE AcquireResult("ok", "", TRUE, cachedNode, attrs, t,
                           TRUE, n, patchBytes, lease)

---------------------------------------------------------------------------
(* The inputs: node names, node states, attrs, callers.                    *)

\* ksm.nodeName.
LocalNode == "node-1"

AllNodes == {"node-1", "node-2"}

AllCallers == {"w1", "w2"}

\* Marks a key a node does not carry, in the tables below only.
NoKey == "<no key>"

\* The node a table row stands for: the annotations it carries, its PodCIDR.
MkNode(r) ==
    [ann |-> [k \in {x \in (DOMAIN r) \ {"cidr"} : r[x] # NoKey} |-> r[k]],
     cidr |-> r.cidr]

\* The annotations a lease is made of, in the reference node.
ReferenceLeaseAnnotations ==
    [backend_type |-> "vxlan", backend_data |-> "d1", public_ip |-> "10.0.0.5"]

\* The node states the translator is checked on: every marker, with and
\* without an unrelated annotation, a PodCIDR that parses or not, and lease
\* annotations that differ from the reference ones in at most one key.
TranslatorNodes ==
    { MkNode(r) : r \in
        { x \in [kube_subnet_manager : {NoKey, "true", "false"},
                 backend_type : {"vxlan", "udp"},
                 backend_data : {NoKey, "", "d1"},
                 public_ip : {"10.0.0.5", "10.0.0.6", "bad"},
                 public_ip_overwrite : {NoKey},
                 other : {NoKey, "x"},
                 cidr : {"10.1.1.7/24", "bad"}] :
            Cardinality({k \in DOMAIN ReferenceLeaseAnnotations :
                            x[k] # ReferenceLeaseAnnotations[k]}) <= 1 } }

\* The states of the local node AcquireLease is checked on, and the node
\* without any annotation.
AcquirerNodes ==
    { MkNode(r) : r \in
        [kube_subnet_manager : {NoKey, "true"},
         backend_type : {NoKey, "vxlan"},
         backend_data : {NoKey, "d1"},
         public_ip : {NoKey, "10.0.0.5", "10.0.0.6"},
         public_ip_overwrite : {NoKey, "", "10.0.0.6"},
         other : {NoKey, "x"},
         cidr : {"", "10.1.0.0/24", "bad"}] }

\* The node states of the whole-system specification.
SampleNodes ==
    { MkNode(r) : r \in
        [kube_subnet_manager : {NoKey, "true"},
         backend_type : {"vxlan"},
         backend_data : {"d1", "d2"},
         public_ip : {"10.0.0.5"},
         public_ip_overwrite : {NoKey},
         other : {NoKey},
         cidr : {"10.1.0.0/24"}] }

AllAttrs ==
    [PublicIP : {167772165, 167772166}, BackendType : {"vxlan"}, BackendData : {"d1"}]

\* The attrs of a process that calls AcquireLease with the same attrs each time.
SameAttrs == [PublicIP |-> 167772165, BackendType |-> "vxlan", BackendData |-> "d1"]

\* The times AcquireLease is called at, in hours.
Times == {100, 200}

NoResult == [Events |-> <<>>, err |-> "nil"]

---------------------------------------------------------------------------
Init ==
    /\ store = EmptyMap
    /\ events = <<>>
    /\ tpc = "idle"
    /\ sendbuf = <<>>
    /\ wpc = [w \in AllCallers |-> "idle"]
    /\ ctxDone = [w \in AllCallers |-> FALSE]
    /\ wres = [w \in AllCallers |-> NoResult]
    /\ acq = NoAcquire
    /\ pending = <<>>
    /\ crashed = FALSE
    /\ last = [kind |-> "none", name |-> ""]
    /\ nnotif = 0
    /\ pushed = <<>>
    /\ returned = <<>>
    /\ nacq = 0
    /\ patches = 0
    /\ rejected = 0

---------------------------------------------------------------------------
(* The handler goroutine. The informer calls one handler at a time, after  *)
(* it has put the change into its cache.                                   *)

Send_DropWhenFull(out) ==
    IF out = <<>> \/ Len(events) >= QueueCap
    THEN UNCHANGED <<events, tpc, sendbuf, pushed>>
    ELSE /\ events' = Append(events, out[1])
         /\ pushed' = Append(pushed, [ev |-> out[1], at |-> nnotif + 1,
                                      name |-> last'.name])
         /\ UNCHANGED <<tpc, sendbuf>>

\* ksm.events <- e for each e of out (none or one): the send completes when
\* the buffer has room, and blocks the goroutine when it is full.
Send(out) ==
    IF out = <<>>
    THEN UNCHANGED <<events, tpc, sendbuf, pushed>>
    ELSE IF Len(events) < QueueCap
    THEN /\ events' = Append(events, out[1])
         /\ pushed' = Append(pushed, [ev |-> out[1], at |-> nnotif + 1,
                                      name |-> last'.name])
         /\ UNCHANGED <<tpc, sendbuf>>
    ELSE /\ tpc' = "sending"
         /\ sendbuf' = out
         /\ UNCHANGED <<events, pushed>>

Handled(kind, name) ==
    /\ last' = [kind |-> kind, name |-> name]
    /\ nnotif' = nnotif + 1
    /\ UNCHANGED <<wpc, ctxDone, wres, acq, crashed, returned, nacq, patches, rejected>>

\* AddFunc (kube.go:161-163).
OnAdd(name, n) ==
    /\ ~crashed /\ tpc = "idle"
    /\ name \notin DOMAIN store
    /\ store' = Put(store, name, n)
    /\ Handled("add", name)
    /\ Send(handleAddLeaseEvent(EventAdded, n))
    /\ UNCHANGED pending

\* UpdateFunc (kube.go:164), for a change made by someone else or, with
\* n = store[name], for a resync.
OnUpdate(name, n) ==
    /\ ~crashed /\ tpc = "idle"
    /\ name \in DOMAIN store
    /\ store' = [store EXCEPT ![name] = n]
    /\ Handled("update", name)
    /\ Send(handleUpdateLeaseEvent(store[name], n))
    /\ UNCHANGED pending

\* UpdateFunc for the allocator's assignment of the local node's address
\* block: nothing but Spec.PodCIDR changes, from "" to the block.
OnPodCIDRAssigned(cidr) ==
    /\ LocalNode \in DOMAIN store
    /\ store[LocalNode].cidr = ""
    /\ OnUpdate(LocalNode, [store[LocalNode] EXCEPT !.cidr = cidr])

\* UpdateFunc at a resync of the informer (resyncPeriod, kube.go:159): the
\* old and the new node are the cached one.
OnResync(name) ==
    /\ name \in DOMAIN store
    /\ OnUpdate(name, store[name])

\* UpdateFunc for the oldest of this process's own patches: the new node is
\* the cached one with the patch merged in.
OnOwnUpdate ==
    /\ ~crashed /\ tpc = "idle"
    /\ pending # <<>>
    /\ LocalNode \in DOMAIN store
    /\ Handled("update", LocalNode)
    /\ LET n == ApplyPatch(store[LocalNode], Head(pending))
       IN  /\ store' = [store EXCEPT ![LocalNode] = n]
           /\ Send(handleUpdateLeaseEvent(store[LocalNode], n))
    /\ pending' = Tail(pending)

\* DeleteFunc (kube.go:165-167) with the deleted node.
OnDelete(name) ==
    /\ ~crashed /\ tpc = "idle"
    /\ name \in DOMAIN store
    /\ store' = [x \in (DOMAIN store) \ {name} |-> store[x]]
    /\ Handled("delete", name)
    /\ Send(handleAddLeaseEvent(EventRemoved, store[name]))
    /\ UNCHANGED pending

\* DeleteFunc with the cache.DeletedFinalStateUnknown the informer passes
\* when it missed the deletion: obj.(*v1.Node) at kube.go:177 panics.
OnDeleteUnknown(name) ==
    /\ ~crashed /\ tpc = "idle"
    /\ name \in DOMAIN store
    /\ store' = [x \in (DOMAIN store) \ {name} |-> store[x]]
    /\ crashed' = TRUE
    /\ last' = [kind |-> "delete-unknown", name |-> name]
    /\ nnotif' = nnotif + 1
    /\ UNCHANGED <<events, tpc, sendbuf, pushed, wpc, ctxDone, wres, acq, pending,
                   returned, nacq, patches, rejected>>

\* The blocked send completes once the buffer has room.
CompleteSend ==
    /\ ~crashed /\ tpc = "sending"
    /\ Len(events) < QueueCap
    /\ events' = Append(events, sendbuf[1])
    /\ pushed' = Append(pushed, [ev |-> sendbuf[1], at |-> nnotif, name |-> last.name])
    /\ tpc' = "idle"
    /\ sendbuf' = <<>>
    /\ UNCHANGED <<store, wpc, ctxDone, wres, acq, pending, crashed, last, nnotif,
                   returned, nacq, patches, rejected>>

---------------------------------------------------------------------------
(* WatchLeases (kube.go:282-291): the call enters the select and returns   *)
(* from one of its two cases.                                              *)

\* The call, with a context that is already done or not.
WatchLeases(w, done) ==
    /\ ~crashed /\ wpc[w] = "idle"
    /\ wpc' = [wpc EXCEPT ![w] = "waiting"]
    /\ ctxDone' = [ctxDone EXCEPT ![w] = done]
    /\ UNCHANGED <<store, events, tpc, sendbuf, wres, acq, pending, crashed, last,
                   nnotif, pushed, returned, nacq, patches, rejected>>

\* The caller's context is cancelled while the call waits.
Cancel(w) ==
    /\ ~crashed /\ wpc[w] = "waiting" /\ ~ctxDone[w]
    /\ ctxDone' = [ctxDone EXCEPT ![w] = TRUE]
    /\ UNCHANGED <<store, events, tpc, sendbuf, wpc, wres, acq, pending, crashed,
                   last, nnotif, pushed, returned, nacq, patches, rejected>>

WatchReceive_Peek(w) ==
    /\ ~crashed /\ wpc[w] = "waiting"
    /\ events # <<>>
    /\ wres' = [wres EXCEPT ![w] = [Events |-> <<Head(events)>>, err |-> "nil"]]
    /\ returned' = Append(returned, Head(events))
    /\ wpc' = [wpc EXCEPT ![w] = "idle"]
    /\ UNCHANGED <<events, store, tpc, sendbuf, ctxDone, acq, pending, crashed, last,
                   nnotif, pushed, nacq, patches, rejected>>

WatchReceive_Newest(w) ==
    /\ ~crashed /\ wpc[w] = "waiting"
    /\ events # <<>>
    /\ events' = SubSeq(events, 1, Len(events) - 1)
    /\ wres' = [wres EXCEPT ![w] = [Events |-> <<events[Len(events)]>>, err |-> "nil"]]
    /\ returned' = Append(returned, events[Len(events)])
    /\ wpc' = [wpc EXCEPT ![w] = "idle"]
    /\ UNCHANGED <<store, tpc, sendbuf, ctxDone, acq, pending, crashed, last,
                   nnotif, pushed, nacq, patches, rejected>>

WatchReceive_Broadcast(w) ==
    /\ ~crashed /\ wpc[w] = "waiting"
    /\ events # <<>>
    /\ events' = Tail(events)
    /\ LET ws == {v \in AllCallers : wpc[v] = "waiting"}
       IN  /\ wres' = [v \in AllCallers |->
                         IF v \in ws THEN [Events |-> <<Head(events)>>, err |-> "nil"]
                         ELSE wres[v]]
           /\ wpc' = [v \in AllCallers |-> "idle"]
           /\ returned' = returned \o [i \in 1..Cardinality(ws) |-> Head(events)]
    /\ UNCHANGED <<store, tpc, sendbuf, ctxDone, acq, pending, crashed, last,
                   nnotif, pushed, nacq, patches, rejected>>

\* case event := <-ksm.events.
WatchReceive(w) ==
    /\ ~crashed /\ wpc[w] = "waiting"
    /\ events # <<>>
    /\ events' = Tail(events)
    /\ wres' = [wres EXCEPT ![w] = [Events |-> <<Head(events)>>, err |-> "nil"]]
    /\ returned' = Append(returned, Head(events))
    /\ wpc' = [wpc EXCEPT ![w] = "idle"]
    /\ UNCHANGED <<store, tpc, sendbuf, ctxDone, acq, pending, crashed, last,
                   nnotif, pushed, nacq, patches, rejected>>

\* case <-ctx.Done().
WatchCancelled(w) ==
    /\ ~crashed /\ wpc[w] = "waiting"
    /\ ctxDone[w]
    /\ wres' = [wres EXCEPT ![w] = NoResult]
    /\ wpc' = [wpc EXCEPT ![w] = "idle"]
    /\ UNCHANGED <<store, events, tpc, sendbuf, ctxDone, acq, pending, crashed, last,
                   nnotif, pushed, returned, nacq, patches, rejected>>

---------------------------------------------------------------------------
AcquireLease_Retry(attrs, t, patchOk) ==
    /\ ~crashed
    /\ LET r1 == AcquireLeaseCall(store, LocalNode, attrs, t, patchOk)
           again == r1.called /\ ~patchOk
           r == IF again THEN AcquireLeaseCall(store, LocalNode, attrs, t, TRUE) ELSE r1
       IN  /\ acq' = r
           /\ crashed' = (r.status = "panic")
           /\ patches' = IF again THEN patches + 2
                          ELSE IF r.called THEN patches + 1 ELSE patches
           /\ rejected' = IF again THEN rejected + 1 ELSE rejected
           /\ pending' = IF r.called /\ r.status = "ok" /\ r.patch # EmptyMap
                         THEN Append(pending, r.patch)
                         ELSE pending
    /\ nacq' = nacq + 1
    /\ UNCHANGED <<store, events, tpc, sendbuf, wpc, ctxDone, wres, last, nnotif,
                   pushed, returned>>

\* AcquireLease (kube.go:214-280). A patch the server accepted and that
\* changes something comes back later as an update notification.
AcquireLease(attrs, t, patchOk) ==
    /\ ~crashed
    /\ LET r == AcquireLeaseCall(store, LocalNode, attrs, t, patchOk)
       IN  /\ acq' = r
           /\ crashed' = (r.status = "panic")
           /\ patches' = IF r.called THEN patches + 1 ELSE patches
           /\ rejected' = IF r.called /\ ~patchOk THEN rejected + 1 ELSE rejected
           /\ pending' = IF r.called /\ r.status = "ok" /\ r.patch # EmptyMap
                         THEN Append(pending, r.patch)
                         ELSE pending
    /\ nacq' = nacq + 1
    /\ UNCHANGED <<store, events, tpc, sendbuf, wpc, ctxDone, wres, last, nnotif,
                   pushed, returned>>

---------------------------------------------------------------------------
(* The specifications.                                                     *)

Watch(w) ==
    \/ \E done \in BOOLEAN : WatchLeases(w, done)
    \/ Cancel(w)
    \/ WatchReceive(w)
    \/ WatchCancelled(w)

Notify(names, nodes) ==
    \/ \E name \in names, n \in nodes : OnAdd(name, n)
    \/ \E name \in names, n \in nodes : OnUpdate(name, n)
    \/ \E name \in names : OnDelete(name)
    \/ \E name \in names : OnDeleteUnknown(name)

Acquire ==
    \E attrs \in AllAttrs, t \in Times, patchOk \in BOOLEAN :
        AcquireLease(attrs, t, patchOk)

\* The whole manager, one WatchLeases caller.
Next ==
    \/ nnotif < MaxNotifs /\ Notify(AllNodes, SampleNodes)
    \/ nnotif < MaxNotifs /\ OnOwnUpdate
    \/ CompleteSend
    \/ Watch("w1")
    \/ nacq < MaxAcquire /\ Acquire

Spec == Init /\ [][Next]_vars

\* The translator on every node state of TranslatorNodes.
NextT ==
    \/ nnotif < MaxNotifs /\ Notify({LocalNode}, TranslatorNodes)
    \/ CompleteSend
    \/ Watch("w1")

SpecT == Init /\ [][NextT]_vars

\* AcquireLease on every state of the local node of AcquirerNodes.
NextA ==
    \/ nnotif < MaxNotifs /\ \E n \in AcquirerNodes : OnAdd(LocalNode, n)
    \/ nnotif < MaxNotifs /\ OnPodCIDRAssigned("10.1.0.0/24")
    \/ nnotif < MaxNotifs /\ OnOwnUpdate
    \/ nacq < MaxAcquire /\ Acquire

SpecA == Init /\ [][NextA]_vars

\* The translator and several concurrent WatchLeases callers.
NextW ==
    \/ nnotif < MaxNotifs /\ Notify({LocalNode}, SampleNodes)
    \/ CompleteSend
    \/ \E w \in AllCallers : Watch(w)

SpecW == Init /\ [][NextW]_vars

\* A process that calls AcquireLease with the same attrs every time, its
\* own patches coming back as updates, and the informer's resyncs.
NextS ==
    \/ nnotif < MaxNotifs /\ \E n \in AcquirerNodes : OnAdd(LocalNode, n)
    \/ nnotif < MaxNotifs /\ OnOwnUpdate
    \/ nnotif < MaxNotifs /\ OnResync(LocalNode)
    \/ nacq < MaxAcquire /\ \E t \in Times, patchOk \in BOOLEAN :
                               AcquireLease(SameAttrs, t, patchOk)

SpecS == Init /\ [][NextS]_vars

---------------------------------------------------------------------------
(* The vocabulary of the properties. A step handles a notification when    *)
(* it raises nnotif; last' then names its kind and node, the node given to *)
(* the handler is in the cache after an add or an update and before a      *)
(* delete, and the old node of an update is in the cache before it.        *)

NotifyStep(kinds) == nnotif' = nnotif + 1 /\ last'.kind \in kinds

GivenNode == IF last'.kind \in {"add", "update"} THEN store'[last'.name] ELSE store[last'.name]

OldNode == store[last'.name]

\* The opt-in marker is there with the value "true".
OptedIn(n) ==
    /\ subnetKubeManagedAnnotation \in DOMAIN n.ann
    /\ n.ann[subnetKubeManagedAnnotation] = "true"

LeaseKeys == {backendDataAnnotation, backendTypeAnnotation, backendPublicIPAnnotation}

\* Key k has the same value in both nodes, a missing key counting as "".
SameValue(o, n, k) == Get(o.ann, k) = Get(n.ann, k)

\* Key k is in both nodes with one value, or in neither.
SameEntry(o, n, k) ==
    /\ (k \in DOMAIN o.ann) = (k \in DOMAIN n.ann)
    /\ k \in DOMAIN o.ann => o.ann[k] = n.ann[k]

\* The node's public-IP is an IPv4 and its address block a CIDR.
Parses(n) ==
    /\ Get(n.ann, backendPublicIPAnnotation) \in DOMAIN IP4Table
    /\ n.cidr \in DOMAIN CIDRTable

\* The lease the properties expect of a node that parses.
LeaseOf(n) ==
    [Subnet |-> CIDRTable[n.cidr],
     Attrs |-> [PublicIP |-> IP4Table[Get(n.ann, backendPublicIPAnnotation)],
                BackendType |-> Get(n.ann, backendTypeAnnotation),
                BackendData |-> Get(n.ann, backendDataAnnotation)],
     Expiration |-> 0]

\* The channel's contents followed by the event of a blocked send.
Outbox == events \o sendbuf

NothingSent == UNCHANGED <<events, sendbuf, tpc, pushed>>

\* Exactly the event e is sent: appended to the channel or, the channel
\* being full, held by the blocked send.
SentOne(e) ==
    /\ Outbox' = Append(Outbox, e)
    /\ Len(events) < QueueCap => events' = Append(events, e) /\ tpc' = "idle"
    /\ Len(events) = QueueCap => events' = events /\ tpc' = "sending"

---------------------------------------------------------------------------
\* C1. A notification (add, update, delete) whose node does not carry the
\* opt-in marker with the value "true" sends nothing: the channel, the
\* handler goroutine and the history of sends are as before.
C1_OptInFilter ==
    [][ NotifyStep({"add", "update", "delete", "delete-unknown"}) /\ ~OptedIn(GivenNode)
            => NothingSent ]_vars

\* C1 witness: the last notification was an update to a node whose marker is
\* "false" and which would translate, after an add that did send an event.
C1_Witness ==
    /\ last.kind = "update" /\ nnotif = 2
    /\ last.name \in DOMAIN store
    /\ Get(store[last.name].ann, subnetKubeManagedAnnotation) = "false"
    /\ Parses(store[last.name])
    /\ Len(pushed) = 1 /\ pushed[1].at = 1

\* C2. An update whose old and new node have the same backend-data,
\* backend-type and public-IP sends nothing, whatever else differs.
C2_UpdateSuppression ==
    [][ NotifyStep({"update"}) /\ (\A k \in LeaseKeys : SameValue(OldNode, GivenNode, k))
            => NothingSent ]_vars

\* C2 witness: the add of a node sent its lease, the update that followed
\* sent nothing, and the node it gave is opted in, carries an unrelated
\* annotation and translates to that same lease.
C2_Witness ==
    /\ last.kind = "update" /\ nnotif = 2
    /\ last.name \in DOMAIN store
    /\ OptedIn(store[last.name]) /\ Parses(store[last.name])
    /\ Get(store[last.name].ann, otherAnnotation) = "x"
    /\ Len(pushed) = 1 /\ pushed[1].at = 1
    /\ pushed[1].ev = [Type |-> EventAdded, Lease |-> LeaseOf(store[last.name])]

\* C3, as amended. An update whose new node is opted in and parses, and in
\* which the value of backend-data, backend-type or public-IP differs
\* between old and new (a missing key counting as ""), sends exactly one
\* event: Added, with the lease of the new node.
C3_UpdateEmission ==
    [][ /\ NotifyStep({"update"})
        /\ OptedIn(GivenNode) /\ Parses(GivenNode)
        /\ \E k \in LeaseKeys : ~SameValue(OldNode, GivenNode, k)
        => SentOne([Type |-> EventAdded, Lease |-> LeaseOf(GivenNode)]) ]_vars

\* C3 as stated: the same, for every update in which one of the three
\* annotations differs between old and new, as an entry of the metadata.
C3_AsStated ==
    [][ /\ NotifyStep({"update"})
        /\ OptedIn(GivenNode) /\ Parses(GivenNode)
        /\ \E k \in LeaseKeys : ~SameEntry(OldNode, GivenNode, k)
        => SentOne([Type |-> EventAdded, Lease |-> LeaseOf(GivenNode)]) ]_vars

\* C3 witness: an add sent one lease and the update after it another, the
\* lease of the node now cached.
C3_Witness ==
    /\ last.kind = "update" /\ nnotif = 2
    /\ last.name \in DOMAIN store
    /\ Len(pushed) = 2 /\ pushed[1].at = 1 /\ pushed[2].at = 2
    /\ pushed[2].ev = [Type |-> EventAdded, Lease |-> LeaseOf(store[last.name])]
    /\ pushed[1].ev.Lease.Attrs # pushed[2].ev.Lease.Attrs

\* C4. The add of an opted-in node that parses sends exactly one event:
\* Added, with Subnet the network of the node's address block, PublicIP the
\* address of its public-IP annotation, and BackendType and BackendData its
\* backend-type and backend-data annotations.
C4_AddTranslation ==
    [][ NotifyStep({"add"}) /\ OptedIn(GivenNode) /\ Parses(GivenNode)
            => SentOne([Type |-> EventAdded, Lease |-> LeaseOf(GivenNode)]) ]_vars

\* C4 witness: the add of the node now cached sent its lease, and the
\* lease's backend type and data are different strings.
C4_Witness ==
    /\ last.kind = "add" /\ nnotif = 1
    /\ last.name \in DOMAIN store
    /\ OptedIn(store[last.name]) /\ Parses(store[last.name])
    /\ pushed = <<[ev |-> [Type |-> EventAdded, Lease |-> LeaseOf(store[last.name])],
                   at |-> 1, name |-> last.name]>>
    /\ pushed[1].ev.Lease.Attrs.BackendType # pushed[1].ev.Lease.Attrs.BackendData
    /\ pushed[1].ev.Lease.Subnet = [IP |-> 167837952, PrefixLen |-> 24]

---------------------------------------------------------------------------
(* AcquireLease.                                                           *)

AcquireStep == nacq' = nacq + 1

\* The local node as the last call left it on the server, when the server
\* held the node the call had read: with the call's patch merged in.
LeftBy(a) == IF a.called THEN ApplyPatch(a.snap, a.patch) ELSE a.snap

\* C5. When a call of AcquireLease has succeeded and the cache holds the
\* local node as that call left it, a call with the same attrs issues no
\* Patch call.
C5_Idempotence ==
    [][ /\ AcquireStep
        /\ acq.status = "ok" /\ acq'.attrs = acq.attrs
        /\ LocalNode \in DOMAIN store /\ store[LocalNode] = LeftBy(acq)
        => patches' = patches ]_vars

\* C5 without an override: the same, for a local node whose public-IP
\* override is missing, empty or the public IP of the attrs.
C5_NoOverride ==
    [][ /\ AcquireStep
        /\ acq.status = "ok" /\ acq'.attrs = acq.attrs
        /\ LocalNode \in DOMAIN store /\ store[LocalNode] = LeftBy(acq)
        /\ Get(store[LocalNode].ann, backendPublicIPOverwriteAnnotation)
              \in {"", IP4String(acq.attrs.PublicIP)}
        => patches' = patches ]_vars

\* The public IP the second part of C6 expects in the node submitted.
ExpectedPublicIP(a) ==
    LET v == Get(a.snap.ann, backendPublicIPOverwriteAnnotation)
    IN  IF v # "" THEN v ELSE IP4String(a.attrs.PublicIP)

\* C6. Whenever AcquireLease issues its Patch call, the node it submits, and
\* the node the patch makes of the one it read, carry as public-IP the
\* override value of the node read when that is not empty, and the public
\* IP of the attrs when the override is missing or empty.
C6_OverridePrecedence ==
    acq.called =>
        /\ Get(acq.wrote.ann, backendPublicIPAnnotation) = ExpectedPublicIP(acq)
        /\ Get(ApplyPatch(acq.snap, acq.patch).ann, backendPublicIPAnnotation)
              = ExpectedPublicIP(acq)

\* C6 witness: a call that succeeded has patched a node whose override is
\* not empty and not the public IP of the attrs, and whose public-IP was
\* another value before.
C6_Witness ==
    /\ acq.called /\ acq.status = "ok"
    /\ Get(acq.snap.ann, backendPublicIPOverwriteAnnotation) = "10.0.0.6"
    /\ IP4String(acq.attrs.PublicIP) = "10.0.0.5"
    /\ Get(acq.snap.ann, backendPublicIPAnnotation) = "10.0.0.5"
    /\ Get(acq.wrote.ann, backendPublicIPAnnotation) = "10.0.0.6"

---------------------------------------------------------------------------
(* WatchLeases and the channel.                                            *)

Returns(w) == wpc[w] = "waiting" /\ wpc'[w] = "idle"

\* C7. A WatchLeases call that returns has either taken the oldest event off
\* the channel and returned exactly it, or taken nothing and returned no
\* event, its context being done; the error is nil in both cases. With the
\* channel empty it can only return the empty result, and a call whose
\* context is done can return.
C7_WatchOutcome ==
    /\ [][ \A w \in AllCallers : Returns(w) =>
             \/ /\ events # <<>>
                /\ events' = Tail(events)
                /\ wres'[w] = [Events |-> <<Head(events)>>, err |-> "nil"]
             \/ /\ ctxDone[w]
                /\ events' = events
                /\ wres'[w] = [Events |-> <<>>, err |-> "nil"] ]_vars
    /\ [](\A w \in AllCallers :
             wpc[w] = "waiting" /\ ctxDone[w] /\ ~crashed => ENABLED WatchCancelled(w))
    /\ [](\A w \in AllCallers : wres[w].err = "nil")

\* C7 witness: the caller got an event from an earlier call, and its last
\* call returned the empty result with the channel empty.
C7_Witness ==
    /\ returned # <<>>
    /\ wpc["w1"] = "idle" /\ ctxDone["w1"]
    /\ wres["w1"] = [Events |-> <<>>, err |-> "nil"]
    /\ events = <<>>

\* C8. With one caller, the events returned so far followed by those in the
\* channel are the events sent so far, in the order of the notifications
\* that made them.
C8_FIFO ==
    /\ returned \o events = [i \in 1..Len(pushed) |-> pushed[i].ev]
    /\ \A i, j \in 1..Len(pushed) : i < j => pushed[i].at < pushed[j].at

\* C8 witness: three different events have been returned.
C8_Witness ==
    /\ Len(returned) = 3
    /\ returned[1] # returned[2] /\ returned[2] # returned[3] /\ returned[1] # returned[3]

\* What the handler of the notification of this step sends.
HandlerOutput ==
    IF last'.kind = "update" THEN handleUpdateLeaseEvent(OldNode, GivenNode)
    ELSE IF last'.kind = "add" THEN handleAddLeaseEvent(EventAdded, GivenNode)
    ELSE IF last'.kind = "delete" THEN handleAddLeaseEvent(EventRemoved, GivenNode)
    ELSE <<>>

C10_NewlyOptedIn ==
    [][ /\ NotifyStep({"update"})
        /\ ~OptedIn(OldNode) /\ OptedIn(GivenNode) /\ Parses(GivenNode)
        => SentOne([Type |-> EventAdded, Lease |-> LeaseOf(GivenNode)]) ]_vars

---------------------------------------------------------------------------
(* Deletions.                                                              *)

\* C11. A delete notification for a node whose last state in the cache is
\* opted in and parses sends exactly one event: Removed, with the lease of
\* that node. The notification carries the node, or the informer's
\* DeletedFinalStateUnknown when it missed the deletion.
C11_RemovedOnDelete ==
    [][ /\ NotifyStep({"delete", "delete-unknown"})
        /\ OptedIn(GivenNode) /\ Parses(GivenNode)
        => SentOne([Type |-> EventRemoved, Lease |-> LeaseOf(GivenNode)]) ]_vars

\* C11 for the deletions that carry the node itself.
C11_NodeGiven ==
    [][ /\ NotifyStep({"delete"})
        /\ OptedIn(GivenNode) /\ Parses(GivenNode)
        => SentOne([Type |-> EventRemoved, Lease |-> LeaseOf(GivenNode)]) ]_vars

---------------------------------------------------------------------------
(* AcquireLease: its precondition, its result, its one write.              *)

\* The local node is not in the cache, or has no address block yet.
NotReady == LocalNode \notin DOMAIN store \/ store[LocalNode].cidr = ""

\* C12. A call of AcquireLease made when the local node is not in the cache
\* or has no address block returns an error ("not found", "not assigned")
\* and no lease, issues no Patch call, and leaves the cache, the patches
\* under way and the channel as they are. Such a failure does not last: a
\* call made after one, when the node is cached with an address block (and
\* annotations), gets past the precondition and succeeds unless its Patch
\* call fails.
C12_Precondition ==
    /\ [][ AcquireStep /\ NotReady =>
             /\ acq'.status = "err" /\ acq'.lease = ZeroLease
             /\ acq'.error = IF LocalNode \in DOMAIN store
                              THEN "pod cidr not assigned" ELSE "not found"
             /\ ~acq'.called /\ patches' = patches /\ pending' = pending
             /\ store' = store
             /\ UNCHANGED <<events, sendbuf, tpc, pushed>> ]_vars
    /\ [][ /\ AcquireStep
           /\ acq.status = "err" /\ acq.error \in {"not found", "pod cidr not assigned"}
           /\ LocalNode \in DOMAIN store
           /\ store[LocalNode].cidr \in DOMAIN CIDRTable
           /\ store[LocalNode].ann # EmptyMap
           => acq'.status = "ok" \/ acq'.error = "patch failed" ]_vars

\* C12 witness: of two calls the second succeeded with the one Patch call
\* made so far, on the node as the assignment of its address block left it;
\* that node lacks the opt-in marker, so a call that had read it with its
\* block would have called Patch: the first call was refused.
C12_Witness ==
    /\ nacq = 2 /\ acq.status = "ok" /\ acq.called /\ patches = 1
    /\ nnotif = 2 /\ last.kind = "update"
    /\ LocalNode \in DOMAIN store /\ store[LocalNode] = acq.snap
    /\ ~Has(acq.snap.ann, subnetKubeManagedAnnotation)

\* C13. After a call of AcquireLease that succeeded, with or without a
\* Patch call, the lease returned has as Subnet the network of the address
\* block of the node read, as Attrs the attrs of the call (its PublicIP
\* too, whatever public IP was written), and as Expiration the time of the
\* call plus 24 hours.
C13_ReturnedLease ==
    acq.status = "ok" =>
        /\ acq.found /\ acq.snap.cidr \in DOMAIN CIDRTable
        /\ acq.lease.Subnet = CIDRTable[acq.snap.cidr]
        /\ acq.lease.Attrs = acq.attrs
        /\ acq.lease.Expiration = acq.time + 24

\* C13 witness: a call at hour 200 with public IP 10.0.0.5 wrote the
\* override 10.0.0.6 to the node and returned a lease with 10.0.0.5 that
\* expires at hour 224.
C13_Witness ==
    /\ acq.status = "ok" /\ acq.called /\ acq.time = 200
    /\ Get(acq.wrote.ann, backendPublicIPAnnotation) = "10.0.0.6"
    /\ Has(acq.patch, backendPublicIPAnnotation)
    /\ acq.attrs.PublicIP = IP4Table["10.0.0.5"]
    /\ acq.lease.Attrs.PublicIP = IP4Table["10.0.0.5"]
    /\ acq.lease.Expiration = 224
    /\ acq.lease.Subnet = [IP |-> 167837696, PrefixLen |-> 24]

\* C14. A call of AcquireLease issues no Patch call or one, and reads the
\* local node once. When its Patch call returns an error, the call has
\* issued that one Patch call only, returns the error and no lease, and
\* nothing of it reaches the cache or the server.
C14_NoRetry ==
    [][ AcquireStep =>
          /\ patches' \in {patches, patches + 1}
          /\ (patches' = patches + 1) = acq'.called
          /\ rejected' \in {rejected, rejected + 1}
          /\ acq'.found => acq'.snap = store[LocalNode]
          /\ rejected' = rejected + 1 =>
                /\ patches' = patches + 1
                /\ acq'.status = "err" /\ acq'.error = "patch failed"
                /\ acq'.lease = ZeroLease
                /\ pending' = pending /\ store' = store ]_vars

\* C14 witness: the first call's Patch call failed, the second call issued
\* its own and succeeded.
C14_Witness ==
    /\ nacq = 2 /\ patches = 2 /\ rejected = 1
    /\ acq.status = "ok" /\ acq.called
    /\ Len(pending) = 1

\* The keys AcquireLease writes.
WrittenKeys ==
    {backendTypeAnnotation, backendDataAnnotation, backendPublicIPAnnotation,
     subnetKubeManagedAnnotation}

\* C17. Whenever AcquireLease issues its Patch call, the node it submits has
\* the address block of the node read and, but for backend-type,
\* backend-data, public-IP and the opt-in marker, the same annotations with
\* the same values (the override among them); its opt-in marker is "true";
\* the patch names none but those four keys and makes the node submitted of
\* the node read.
C17_WriteFrame ==
    acq.called =>
        /\ acq.wrote.cidr = acq.snap.cidr
        /\ \A k \in ((DOMAIN acq.snap.ann) \cup (DOMAIN acq.wrote.ann)) \ WrittenKeys :
              SameEntry(acq.snap, acq.wrote, k)
        /\ Has(acq.wrote.ann, subnetKubeManagedAnnotation)
        /\ acq.wrote.ann[subnetKubeManagedAnnotation] = "true"
        /\ DOMAIN acq.patch \subseteq WrittenKeys
        /\ ApplyPatch(acq.snap, acq.patch) = acq.wrote

\* C17 witness: a Patch call that changed all four keys of a node carrying
\* an override and an unrelated annotation.
C17_Witness ==
    /\ acq.called /\ acq.status = "ok"
    /\ DOMAIN acq.patch = WrittenKeys
    /\ Get(acq.snap.ann, backendPublicIPOverwriteAnnotation) = "10.0.0.6"
    /\ Get(acq.snap.ann, otherAnnotation) = "x"
    /\ Get(acq.wrote.ann, backendPublicIPOverwriteAnnotation) = "10.0.0.6"
    /\ Get(acq.wrote.ann, otherAnnotation) = "x"

---------------------------------------------------------------------------
(* Malformed nodes, several consumers, the feedback of the own write.      *)

AnyNotification == {"add", "update", "delete", "delete-unknown"}

\* C15. A notification (add, update, delete) for an opted-in node that does
\* not parse sends nothing and leaves the handler goroutine alive and ready
\* for the next notification; and the notifications that give an opted-in
\* node that parses are translated and sent all the same: an add as Added,
\* a delete as Removed, an update that changes the value of backend-data,
\* backend-type or public-IP as Added.
C15_MalformedDropped ==
    /\ [][ NotifyStep(AnyNotification) /\ OptedIn(GivenNode) /\ ~Parses(GivenNode)
             => NothingSent /\ ~crashed' /\ tpc' = "idle" ]_vars
    /\ [][ /\ NotifyStep({"add", "update", "delete"})
           /\ OptedIn(GivenNode) /\ Parses(GivenNode)
           /\ (last'.kind = "update" =>
                 \E k \in LeaseKeys : ~SameValue(OldNode, GivenNode, k))
           => SentOne([Type |-> IF last'.kind \in {"add", "update"}
                                THEN EventAdded ELSE EventRemoved,
                       Lease |-> LeaseOf(GivenNode)]) ]_vars

\* C15 for the notifications that carry the node itself.
C15_NodeGiven ==
    /\ [][ /\ NotifyStep({"add", "update", "delete"})
           /\ OptedIn(GivenNode) /\ ~Parses(GivenNode)
           => NothingSent /\ ~crashed' /\ tpc' = "idle" ]_vars
    /\ [][ /\ NotifyStep({"add", "update", "delete"})
           /\ OptedIn(GivenNode) /\ Parses(GivenNode)
           /\ (last'.kind = "update" =>
                 \E k \in LeaseKeys : ~SameValue(OldNode, GivenNode, k))
           => SentOne([Type |-> IF last'.kind \in {"add", "update"}
                                THEN EventAdded ELSE EventRemoved,
                       Lease |-> LeaseOf(GivenNode)]) ]_vars

\* C16. With several WatchLeases calls under way, a call that returns an
\* event takes the oldest event off the channel and returns it, and no
\* other call returns or changes its result in that step; an event leaves
\* the channel only by being returned to one call; the events returned so
\* far, to all callers together, followed by those in the channel are the
\* events sent so far.
C16_DisjointConsumers ==
    /\ [][ \A w \in AllCallers :
             Returns(w) /\ wres'[w].Events # <<>> =>
                /\ events # <<>> /\ events' = Tail(events)
                /\ wres'[w].Events = <<Head(events)>>
                /\ returned' = Append(returned, Head(events))
                /\ \A v \in AllCallers \ {w} :
                      wres'[v] = wres[v] /\ wpc'[v] = wpc[v] ]_vars
    /\ [][ Len(events') < Len(events) =>
             \E w \in AllCallers : Returns(w) /\ wres'[w].Events = <<Head(events)>> ]_vars
    /\ [][ returned' # returned =>
             \E w \in AllCallers : Returns(w) /\ wres'[w].Events # <<>> ]_vars
    /\ [](Len(returned) + Len(events) = Len(pushed))
    /\ [](\A i \in 1..Len(pushed) :
             pushed[i].ev = IF i <= Len(returned) THEN returned[i]
                            ELSE events[i - Len(returned)])

\* C16 witness: three events were sent and returned, the last two to two
\* different callers, which hold different events.
C16_Witness ==
    /\ Len(pushed) = 3 /\ Len(returned) = 3 /\ events = <<>>
    /\ wres["w1"].Events = <<returned[2]>>
    /\ wres["w2"].Events = <<returned[3]>>
    /\ returned[2] # returned[3]

\* The sends made by update notifications, where the first notification is
\* the add of the local node.
SentByUpdates == {i \in 1..Len(pushed) : pushed[i].at > 1}

\* C18. A process calls AcquireLease with the same attrs, any number of
\* times, its patches come back as update notifications and the informer
\* resyncs: of all the update notifications at most one sends an event, an
\* Added one, and none does unless the server has accepted a patch.
C18_NoEventStorm ==
    /\ Cardinality(SentByUpdates) <= 1
    /\ \A i \in SentByUpdates : pushed[i].ev.Type = EventAdded
    /\ SentByUpdates # {} => patches > rejected

\* C18 witness: the first call's patch came back and sent the one event, the
\* second call wrote nothing, and the resync after it sent nothing.
C18_Witness ==
    /\ nacq = 2 /\ patches = 1 /\ rejected = 0
    /\ acq.status = "ok" /\ ~acq.called
    /\ nnotif = 3 /\ last.kind = "update" /\ pending = <<>>
    /\ Len(pushed) = 1 /\ pushed[1].at = 2

---------------------------------------------------------------------------
(* The stream of events as a whole.                                        *)

\* C19. Every Removed event sent comes after an Added event sent for the
\* same node.
C19_RemovedAfterAdded ==
    \A i \in 1..Len(pushed) :
        pushed[i].ev.Type = EventRemoved =>
            \E j \in 1..(i - 1) :
                pushed[j].ev.Type = EventAdded /\ pushed[j].name = pushed[i].name

\* The Added events sent for a node.
AddedFor(name) ==
    {i \in 1..Len(pushed) : pushed[i].name = name /\ pushed[i].ev.Type = EventAdded}

\* C20. When no send is waiting, every node in the cache that is opted in
\* and parses has had an Added event sent, and the last one carries the
\* lease of the node as it is now.
C20_StreamTracksDirectory ==
    tpc = "idle" =>
        \A name \in DOMAIN store :
            OptedIn(store[name]) /\ Parses(store[name]) =>
                /\ AddedFor(name) # {}
                /\ LET i == CHOOSE x \in AddedFor(name) : \A y \in AddedFor(name) : y <= x
                   IN  pushed[i].ev.Lease = LeaseOf(store[name])

====
